---- MODULE Spec2Model ----
(***************************************************************************)
(* Model of web/src/app/api/client/requests.ts: the request executor       *)
(* (buildQuery), the envelope decoder (handleResponse), the error          *)
(* classifier (handleError) and the two react-query wrappers               *)
(* (useServerMutation, useServerQuery).                                    *)
(*                                                                         *)
(* JavaScript values are tagged records, so that values of different       *)
(* JavaScript types can be compared:                                       *)
(*   undefined, null, string, number, boolean, object (string-keyed        *)
(*   function), array (sequence).                                          *)
(* A JavaScript completion is [kind |-> "return", value |-> v] or          *)
(* [kind |-> "throw", error |-> e].                                        *)
(***************************************************************************)
EXTENDS Integers, Sequences, FiniteSets, TLC

(***************************************************************************)
(* JavaScript values                                                       *)
(***************************************************************************)
Undef == [t |-> "undefined"]
Null == [t |-> "null"]
Str(s) == [t |-> "string", s |-> s]
Num(n) == [t |-> "number", n |-> n]
Bool(b) == [t |-> "boolean", b |-> b]
Obj(f) == [t |-> "object", o |-> f]
Arr(q) == [t |-> "array", a |-> q]

\* The object with no own property, {}.
EmptyObj == Obj(<<>>)

\* typeof v: arrays and null are "object".
TypeOf(v) == IF v.t \in {"array", "null"} THEN "object" ELSE v.t

\* ToBoolean(v), as used by !v and !!v.
Truthy(v) ==
  CASE v.t = "undefined" -> FALSE
    [] v.t = "null" -> FALSE
    [] v.t = "boolean" -> v.b
    [] v.t = "number" -> v.n # 0
    [] v.t = "string" -> v.s # ""
    [] OTHER -> TRUE

Return(v) == [kind |-> "return", value |-> v]
Throw(e) == [kind |-> "throw", error |-> e]

(***************************************************************************)
(* Strings                                                                 *)
(***************************************************************************)
\* The character of s at 1-based position i, "" past either end.
Ch(s, i) == IF i >= 1 /\ i <= Len(s) THEN SubSeq(s, i, i) ELSE ""

\* Whether p occurs in s starting at position i.
StartsAt(s, i, p) ==
  /\ i >= 1
  /\ i + Len(p) - 1 <= Len(s)
  /\ SubSeq(s, i, i + Len(p) - 1) = p

\* String.prototype.includes: p occurs somewhere in s.
StrIncludes(s, p) == \E i \in 1..(Len(s) + 1) : StartsAt(s, i, p)

DigitChars == <<"0", "1", "2", "3", "4", "5", "6", "7", "8", "9">>

IsDigit(c) == \E d \in 1..10 : DigitChars[d] = c

DigitVal(c) == (CHOOSE d \in 1..10 : DigitChars[d] = c) - 1

\* Number-to-string for integers, as String(n) gives for them.
RECURSIVE NatToStr(_)
NatToStr(n) ==
  IF n < 10 THEN DigitChars[n + 1]
  ELSE NatToStr(n \div 10) \o DigitChars[(n % 10) + 1]

NumToStr(n) == IF n < 0 THEN "-" \o NatToStr(0 - n) ELSE NatToStr(n)

(***************************************************************************)
(* JSON.parse                                                              *)
(*                                                                         *)
(* A recursive-descent parser of the JSON grammar restricted to: null,     *)
(* true, false, integers, string literals without escape sequences,        *)
(* arrays, objects, and spaces between tokens.  A parse step yields        *)
(* [ok |-> TRUE, val |-> v, pos |-> next position] or [ok |-> FALSE].      *)
(***************************************************************************)
ParseFail == [ok |-> FALSE]

ParseOk(v, p) == [ok |-> TRUE, val |-> v, pos |-> p]

RECURSIVE SkipWs(_, _)
SkipWs(s, i) == IF Ch(s, i) = " " THEN SkipWs(s, i + 1) ELSE i

\* The position of the quote closing a string literal whose content starts
\* at i; 0 when the literal is unterminated or holds a backslash.
RECURSIVE StrEnd(_, _)
StrEnd(s, i) ==
  IF i > Len(s) THEN 0
  ELSE IF Ch(s, i) = "\"" THEN i
  ELSE IF Ch(s, i) = "\\" THEN 0
  ELSE StrEnd(s, i + 1)

ParseString(s, i) ==
  IF Ch(s, i) # "\"" THEN ParseFail
  ELSE LET e == StrEnd(s, i + 1) IN
       IF e = 0 THEN ParseFail
       ELSE ParseOk(Str(SubSeq(s, i + 1, e - 1)), e + 1)

\* The digits from position i on: [val, pos], acc the value read so far.
RECURSIVE ScanDigits(_, _, _)
ScanDigits(s, i, acc) ==
  IF IsDigit(Ch(s, i)) THEN ScanDigits(s, i + 1, acc * 10 + DigitVal(Ch(s, i)))
  ELSE [val |-> acc, pos |-> i]

\* -? ( 0 | [1-9][0-9]* )
ParseNumber(s, i) ==
  LET neg == Ch(s, i) = "-"
      j == IF neg THEN i + 1 ELSE i
  IN  IF ~IsDigit(Ch(s, j)) THEN ParseFail
      ELSE IF Ch(s, j) = "0" THEN ParseOk(Num(0), j + 1)
      ELSE LET d == ScanDigits(s, j, 0) IN
           ParseOk(Num(IF neg THEN 0 - d.val ELSE d.val), d.pos)

RECURSIVE ParseValue(_, _)
RECURSIVE ParseElements(_, _, _)
RECURSIVE ParseMembers(_, _, _)

\* The elements of an array after "[" or ",": acc the elements read so far.
ParseElements(s, i, acc) ==
  LET r == ParseValue(s, i) IN
  IF ~r.ok THEN ParseFail
  ELSE LET j == SkipWs(s, r.pos) IN
       IF Ch(s, j) = "," THEN ParseElements(s, j + 1, Append(acc, r.val))
       ELSE IF Ch(s, j) = "]" THEN ParseOk(Arr(Append(acc, r.val)), j + 1)
       ELSE ParseFail

\* The members of an object after "{" or ",": acc the properties read so
\* far; a repeated key keeps its last value.
ParseMembers(s, i, acc) ==
  LET k == ParseString(s, SkipWs(s, i)) IN
  IF ~k.ok THEN ParseFail
  ELSE LET c == SkipWs(s, k.pos) IN
       IF Ch(s, c) # ":" THEN ParseFail
       ELSE LET r == ParseValue(s, c + 1) IN
            IF ~r.ok THEN ParseFail
            ELSE LET j == SkipWs(s, r.pos)
                     f == (k.val.s :> r.val) @@ acc
                 IN  IF Ch(s, j) = "," THEN ParseMembers(s, j + 1, f)
                     ELSE IF Ch(s, j) = "}" THEN ParseOk(Obj(f), j + 1)
                     ELSE ParseFail

ParseValue(s, i0) ==
  LET i == SkipWs(s, i0)
      c == Ch(s, i)
  IN  CASE c = "n" -> IF StartsAt(s, i, "null") THEN ParseOk(Null, i + 4) ELSE ParseFail
        [] c = "t" -> IF StartsAt(s, i, "true") THEN ParseOk(Bool(TRUE), i + 4) ELSE ParseFail
        [] c = "f" -> IF StartsAt(s, i, "false") THEN ParseOk(Bool(FALSE), i + 5) ELSE ParseFail
        [] c = "\"" -> ParseString(s, i)
        [] c = "[" -> IF Ch(s, SkipWs(s, i + 1)) = "]"
                      THEN ParseOk(Arr(<<>>), SkipWs(s, i + 1) + 1)
                      ELSE ParseElements(s, i + 1, <<>>)
        [] c = "{" -> IF Ch(s, SkipWs(s, i + 1)) = "}"
                      THEN ParseOk(EmptyObj, SkipWs(s, i + 1) + 1)
                      ELSE ParseMembers(s, i + 1, <<>>)
        [] c = "-" \/ IsDigit(c) -> ParseNumber(s, i)
        [] OTHER -> ParseFail

\* JSON.parse(s): the value, or a SyntaxError when s is not one JSON text.
JSONParse(s) ==
  LET r == ParseValue(s, 1) IN
  IF r.ok /\ SkipWs(s, r.pos) = Len(s) + 1 THEN Return(r.val)
  ELSE Throw("SyntaxError")

(***************************************************************************)
(* Property access and conversions                                         *)
(***************************************************************************)
\* The array index a property key names, -1 when it names none.
IndexOf(k) ==
  IF k # "" /\ \A i \in 1..Len(k) : IsDigit(Ch(k, i))
  THEN ScanDigits(k, 1, 0).val
  ELSE 0 - 1

\* v[k] for v neither null nor undefined (own properties, an array's or a
\* string's length and elements); undefined for any other key.
Get(v, k) ==
  CASE v.t = "object" -> IF k \in DOMAIN v.o THEN v.o[k] ELSE Undef
    [] v.t = "array" ->
         IF k = "length" THEN Num(Len(v.a))
         ELSE IF IndexOf(k) >= 0 /\ IndexOf(k) < Len(v.a) THEN v.a[IndexOf(k) + 1]
         ELSE Undef
    [] v.t = "string" ->
         IF k = "length" THEN Num(Len(v.s))
         ELSE IF IndexOf(k) >= 0 /\ IndexOf(k) < Len(v.s) THEN Str(Ch(v.s, IndexOf(k) + 1))
         ELSE Undef
    [] OTHER -> Undef

\* v?.k
OptGet(v, k) == IF v.t \in {"undefined", "null"} THEN Undef ELSE Get(v, k)

\* k in v, for v an object or an array.
HasProp(v, k) ==
  CASE v.t = "object" -> k \in DOMAIN v.o
    [] v.t = "array" -> k = "length" \/ (IndexOf(k) >= 0 /\ IndexOf(k) < Len(v.a))
    [] OTHER -> FALSE

\* String(v), the conversion that + and JSON.parse apply to an operand.
RECURSIVE JSToString(_)
RECURSIVE JoinFrom(_, _)
JoinFrom(q, i) ==
  IF i > Len(q) THEN ""
  ELSE (IF q[i].t \in {"undefined", "null"} THEN "" ELSE JSToString(q[i]))
       \o (IF i < Len(q) THEN "," ELSE "")
       \o JoinFrom(q, i + 1)

JSToString(v) ==
  CASE v.t = "undefined" -> "undefined"
    [] v.t = "null" -> "null"
    [] v.t = "boolean" -> IF v.b THEN "true" ELSE "false"
    [] v.t = "number" -> NumToStr(v.n)
    [] v.t = "string" -> v.s
    [] v.t = "array" -> JoinFrom(v.a, 1)
    [] OTHER -> "[object Object]"

\* v > 0 (the relational comparison converts v to a number; NaN compares
\* false).
GreaterThanZero(v) ==
  LET s == JSToString(v) IN
  CASE v.t = "number" -> v.n > 0
    [] v.t = "boolean" -> v.b
    [] v.t \in {"string", "array"} ->
         /\ s # ""
         /\ \A i \in 1..Len(s) : IsDigit(Ch(s, i))
         /\ ScanDigits(s, 1, 0).val > 0
    [] OTHER -> FALSE

\* err.includes(p): String.prototype.includes on a string,
\* Array.prototype.includes on an array, and a TypeError on a value that has
\* no callable includes property.
Includes(err, p) ==
  CASE err.t = "string" -> Return(StrIncludes(err.s, p))
    [] err.t = "array" -> Return(\E i \in 1..Len(err.a) : err.a[i] = Str(p))
    [] OTHER -> Throw("TypeError")

(***************************************************************************)
(* handleError (the Error Classifier)                                      *)
(***************************************************************************)
RateLimitMessage == "Anilist: Too many requests, please wait a moment and try again"

\* The body of the try block: JSON.parse(err), then the graphqlErrors test.
\* Reading a property of a parsed null raises a TypeError inside the block.
TryGraphql(err) ==
  LET parsed == JSONParse(JSToString(err)) IN
  IF parsed.kind = "throw" THEN parsed
  ELSE LET graphqlErr == parsed.value IN
       IF graphqlErr.t \in {"null", "undefined"} THEN Throw("TypeError")
       ELSE LET errs == Get(graphqlErr, "graphqlErrors") IN
            IF /\ Truthy(errs)
               /\ GreaterThanZero(Get(errs, "length"))
               /\ Truthy(OptGet(Get(errs, "0"), "message"))
            THEN Return("Anilist error: " \o JSToString(OptGet(Get(errs, "0"), "message")))
            ELSE Return("Anilist error")

\* try { ... } catch (e) { return "Error: " + err }
ParseBranch(err) ==
  LET r == TryGraphql(err) IN
  IF r.kind = "throw" THEN Return("Error: " \o JSToString(err)) ELSE r

\* A faulty handleError: the structured-parse rules tried before the
\* rate-limit rule.
handleErrorParseFirst(data) ==
  IF TypeOf(data) = "string" THEN Return("Server Error" \o data.s)
  ELSE LET err == OptGet(data, "error") IN
       IF ~Truthy(err) THEN Return("Unknown error")
       ELSE LET r == TryGraphql(err)
                inc == Includes(err, "Too many requests")
            IN  IF r.kind = "return" /\ r.value # "Anilist error" THEN r
                ELSE IF inc.kind = "throw" THEN inc
                ELSE IF inc.value THEN Return(RateLimitMessage)
                ELSE ParseBranch(err)

handleError(data) ==
  IF TypeOf(data) = "string" THEN Return("Server Error" \o data.s)
  ELSE LET err == OptGet(data, "error") IN
       IF ~Truthy(err) THEN Return("Unknown error")
       ELSE LET inc == Includes(err, "Too many requests") IN
            IF inc.kind = "throw" THEN inc
            ELSE IF inc.value THEN Return(RateLimitMessage)
            ELSE ParseBranch(err)

(***************************************************************************)
(* handleResponse (the Envelope Decoder) and buildQuery (the Executor)     *)
(***************************************************************************)
\* A faulty handleResponse: the `data` test made before the `error` test.
handleResponseDataFirst(res) ==
  IF TypeOf(res) = "object" /\ Truthy(res) /\ HasProp(res, "data")
  THEN [data |-> Get(res, "data"), error |-> Undef]
  ELSE IF /\ TypeOf(res) = "object"
          /\ Truthy(res)
          /\ HasProp(res, "error")
          /\ TypeOf(Get(res, "error")) = "string"
  THEN [data |-> Undef, error |-> Get(res, "error")]
  ELSE [data |-> Undef, error |-> Str("No response from the server")]

handleResponse(res) ==
  IF /\ TypeOf(res) = "object"
     /\ Truthy(res)
     /\ HasProp(res, "error")
     /\ TypeOf(Get(res, "error")) = "string"
  THEN [data |-> Undef, error |-> Get(res, "error")]
  ELSE IF TypeOf(res) = "object" /\ Truthy(res) /\ HasProp(res, "data")
  THEN [data |-> Get(res, "data"), error |-> Undef]
  ELSE [data |-> Undef, error |-> Str("No response from the server")]

\* The completion of buildQuery given how the awaited axios call settled:
\* [ok |-> TRUE, data |-> body] for a fulfilled call, [ok |-> FALSE,
\* error |-> e] for a rejected one, whose error the await rethrows.
buildQuery(settled) ==
  IF ~settled.ok THEN Throw(settled.error)
  ELSE LET response == handleResponse(settled.data) IN
       Return(response.data)

(***************************************************************************)
(* Inputs                                                                  *)
(***************************************************************************)
\* Numbers that occur in payloads are 0..MaxNum.
MaxNum == 2

Absent == [t |-> "absent"]

\* Strings a server may send in an `error` field.
ErrStrings ==
  { "Too many requests",
    "Too many requests from X",
    "429: Too many requests",
    "too many requests",
    "not json",
    "{\"graphqlErrors\":[{\"message\":\"bad query\"}]}",
    "{\"graphqlErrors\":[{\"message\":\"m1\"},{\"message\":\"m2\"}]}",
    " {\"graphqlErrors\" : [ {\"message\" : \"spaced\"} ] } ",
    "{\"graphqlErrors\":[{\"message\":\"Too many requests\"}]}",
    "{\"graphqlErrors\":[]}",
    "{\"graphqlErrors\":[{}]}",
    "{\"graphqlErrors\":[{\"message\":\"\"}]}",
    "{\"graphqlErrors\":[null]}",
    "{\"graphqlErrors\":\"abc\"}",
    "{\"graphqlErrors\":null}",
    "{\"message\":\"x\"}",
    "{\"graphqlErrors\":[{\"message\":\"cut\"}",
    "{}",
    "[]",
    "[1,2]",
    "42",
    "0",
    "true",
    "false",
    "null",
    "\"abc\"" }

\* Values of an `error` field: the strings above, and values of other types.
ErrValues ==
  {Str(s) : s \in ErrStrings \cup {""}}
    \cup {Num(n) : n \in 0..MaxNum}
    \cup { Null, Bool(TRUE), Bool(FALSE), EmptyObj,
           Obj("message" :> Str("m")),
           Arr(<<>>), Arr(<<Str("Too many requests")>>), Arr(<<Num(1), Null>>) }

\* Raw payloads handed to handleError.
Payloads ==
  {Undef, Null, Bool(TRUE), EmptyObj, Arr(<<>>), Obj("data" :> Num(1))}
    \cup {Num(n) : n \in 0..MaxNum}
    \cup {Str(s) : s \in {"", "raw string", "Too many requests", "{}", "null"}}
    \cup {Obj("error" :> e) : e \in ErrValues}
    \cup {Obj(("error" :> e) @@ ("data" :> Num(1))) :
            e \in {Str("Too many requests"), Str("not json"), Str("")}}

\* Decoded JSON values.
JsonVals ==
  {Null, Bool(TRUE), Bool(FALSE), Str(""), Str("plain string"),
   Arr(<<>>), Arr(<<Num(1), Str("a")>>), EmptyObj,
   Obj("a" :> Obj("b" :> Arr(<<Null>>)))}
    \cup {Num(n) : n \in 0..MaxNum}

Envelope(e, d) ==
  Obj((IF e = Absent THEN <<>> ELSE "error" :> e)
        @@ (IF d = Absent THEN <<>> ELSE "data" :> d))

\* Response bodies as axios decodes them: any JSON value, among them the
\* objects with an `error` field, a `data` field, both or neither.  An empty
\* response decodes to "" and a non-JSON one to its text.
Bodies ==
  JsonVals
    \cup {Envelope(e, d) : e \in JsonVals \cup {Absent}, d \in JsonVals \cup {Absent}}
    \cup {Obj("other" :> Num(1)), Arr(<<Obj("error" :> Str("e"))>>)}

\* The request object of an AxiosError (an XMLHttpRequest in the browser):
\* it has no `data` property.
XhrRequest(status) == Obj(("status" :> Num(status)) @@ ("responseText" :> Str("")))

\* new AxiosError(...): `response` is set when the server answered with a
\* status outside 2xx, and is undefined for a network error or a timeout.
AxiosError(request, response) ==
  Obj(("name" :> Str("AxiosError")) @@ ("request" :> request) @@ ("response" :> response))

HttpResponse(status, b) == Obj(("status" :> Num(status)) @@ ("data" :> b))

\* Bodies of responses with a status outside 2xx.
ErrorBodies ==
  { Obj("error" :> Str("Too many requests")),
    Obj("error" :> Str("not json")),
    Obj("error" :> Str("{\"graphqlErrors\":[{\"message\":\"bad query\"}]}")),
    Str("raw string"),
    EmptyObj }

AxiosErrors ==
  {AxiosError(XhrRequest(0), Undef)}
    \cup {AxiosError(XhrRequest(500), HttpResponse(500, b)) : b \in ErrorBodies}

Fulfilled(b) == [ok |-> TRUE, data |-> b]
Rejected(e) == [ok |-> FALSE, error |-> e]

\* The ways the awaited axios call settles.
Settlements ==
  {Fulfilled(b) : b \in Bodies} \cup {Rejected(e) : e \in AxiosErrors}

NotRun == [kind |-> "none"]

(***************************************************************************)
(* State                                                                   *)
(***************************************************************************)
VARIABLES
  payload,        \* the raw payload handed to handleError
  classified,     \* handleError's completion for it, NotRun before the call
  settled,        \* how the axios call awaited by buildQuery settled
  decoded,        \* handleResponse's result for the body, NotRun before
  outcome,        \* buildQuery's completion, NotRun before
  config,         \* the object the caller passes to useServerMutation
  clientDefaults, \* the QueryClient's default mutation options
  merged,         \* the options useServerMutation hands to useMutation
  muts,           \* the mutations triggered so far, one record per trigger
  muteError,      \* the muteError prop of the last render of useServerQuery
  cache,          \* the query's {error, isError} in the query cache
  lastDeps,       \* the dependencies the effect last ran with
  toasts,         \* the toast.error calls made by the query's effect
  nextId          \* the identity of the next error object

pureVars == <<payload, classified, settled, decoded, outcome>>
mutVars == <<config, clientDefaults, merged, muts>>
queryVars == <<muteError, cache, lastDeps, toasts, nextId>>
vars == <<pureVars, mutVars, queryVars>>

NoDeps == [ran |-> FALSE]
NoError == [error |-> Null, isError |-> FALSE]

\* The values the variables of the other parts keep while one part runs.
PureIdle ==
  /\ payload = Undef
  /\ classified = NotRun
  /\ settled = Fulfilled(Null)
  /\ decoded = NotRun
  /\ outcome = NotRun

MutIdle ==
  /\ config = <<>>
  /\ clientDefaults = <<>>
  /\ merged = NotRun
  /\ muts = <<>>

QueryIdle ==
  /\ muteError = Undef
  /\ cache = NoError
  /\ lastDeps = NoDeps
  /\ toasts = <<>>
  /\ nextId = 1

(***************************************************************************)
(* The classifier applied to every payload                                 *)
(***************************************************************************)
InitClassify ==
  /\ payload \in Payloads
  /\ classified = NotRun
  /\ settled = Fulfilled(Null)
  /\ decoded = NotRun
  /\ outcome = NotRun
  /\ MutIdle
  /\ QueryIdle

Classify ==
  /\ classified = NotRun
  /\ classified' = handleError(payload)
  /\ UNCHANGED <<payload, settled, decoded, outcome, mutVars, queryVars>>

NextClassify == Classify

SpecClassify == InitClassify /\ [][NextClassify]_vars

(***************************************************************************)
(* The decoder and the executor applied to every settlement                *)
(***************************************************************************)
InitExec ==
  /\ settled \in Settlements
  /\ decoded = NotRun
  /\ outcome = NotRun
  /\ payload = Undef
  /\ classified = NotRun
  /\ MutIdle
  /\ QueryIdle

Decode ==
  /\ settled.ok
  /\ decoded = NotRun
  /\ decoded' = handleResponse(settled.data)
  /\ UNCHANGED <<payload, classified, settled, outcome, mutVars, queryVars>>

Execute ==
  /\ outcome = NotRun
  /\ outcome' = buildQuery(settled)
  /\ UNCHANGED <<payload, classified, settled, decoded, mutVars, queryVars>>

NextExec == Decode \/ Execute

SpecExec == InitExec /\ [][NextExec]_vars

(***************************************************************************)
(* Claims about the classifier, checked under SpecClassify                 *)
(***************************************************************************)
\* Whether the payload is an object whose own `error` property is a string.
HasErrorString(p) ==
  /\ p.t = "object"
  /\ "error" \in DOMAIN p.o
  /\ p.o["error"].t = "string"

\* Whether the payload has no `error` to extract, or an empty one.
ErrorAbsentOrEmpty(p) ==
  \/ p.t \in {"undefined", "null", "number", "boolean", "array"}
  \/ /\ p.t = "object"
     /\ \/ "error" \notin DOMAIN p.o
        \/ p.o["error"] \in {Str(""), Null}

\* C6: handleError is total: for every raw payload it returns a non-empty
\* string and never raises, and a payload that is not a string and carries
\* no usable `error` string yields "Unknown error".
C6_ClassifierTotal ==
  classified # NotRun =>
    /\ classified.kind = "return"
    /\ classified.value # ""
    /\ (payload.t # "string" /\ ~HasErrorString(payload))
         => classified = Return("Unknown error")

\* Whether a parsed value holds a non-empty list of graphql error entries,
\* an entry being an object with a non-empty message string.
HasGraphqlErrorList(v) ==
  /\ v.t = "object"
  /\ "graphqlErrors" \in DOMAIN v.o
  /\ v.o["graphqlErrors"].t = "array"
  /\ Len(v.o["graphqlErrors"].a) > 0
  /\ LET first == v.o["graphqlErrors"].a[1] IN
       /\ first.t = "object"
       /\ "message" \in DOMAIN first.o
       /\ first.o["message"].t = "string"
       /\ first.o["message"].s # ""

FirstMessage(v) == v.o["graphqlErrors"].a[1].o["message"].s

\* C7: for an extracted error string e that does not contain "Too many
\* requests": when e parses as JSON, the result is "Anilist error: " + the
\* first entry's message if the parsed value holds a non-empty list of graphql
\* error entries, and "Anilist error" if it holds none, whatever the parsed
\* value is; "Error: " + e is returned only when parsing fails.
C7_ParseRules ==
  (/\ classified # NotRun
   /\ HasErrorString(payload)
   /\ payload.o["error"].s # ""
   /\ ~StrIncludes(payload.o["error"].s, "Too many requests"))
  => LET e == payload.o["error"].s
         parsed == JSONParse(e)
     IN  /\ (parsed.kind = "return" /\ HasGraphqlErrorList(parsed.value))
              => classified = Return("Anilist error: " \o FirstMessage(parsed.value))
         /\ (parsed.kind = "return" /\ ~HasGraphqlErrorList(parsed.value))
              => classified = Return("Anilist error")
         /\ classified = Return("Error: " \o e) => parsed.kind = "throw"

\* C8: the rules apply in order, first match wins: a string payload s gives
\* "Server Error" + s; else an absent or empty `error` gives "Unknown error";
\* else an `error` string containing "Too many requests" gives the rate-limit
\* message, also when that string is JSON with a graphql error list; the
\* structured-parse results are produced only when none of these applies.
C8_RuleOrder ==
  classified # NotRun =>
    /\ payload.t = "string"
         => classified = Return("Server Error" \o payload.s)
    /\ (payload.t # "string" /\ ErrorAbsentOrEmpty(payload))
         => classified = Return("Unknown error")
    /\ (HasErrorString(payload)
          /\ StrIncludes(payload.o["error"].s, "Too many requests"))
         => classified = Return(RateLimitMessage)
    /\ (/\ classified.kind = "return"
        /\ \/ StartsAt(classified.value, 1, "Anilist error")
           \/ StartsAt(classified.value, 1, "Error: "))
         => /\ payload.t # "string"
            /\ ~ErrorAbsentOrEmpty(payload)
            /\ HasErrorString(payload)
                 => ~StrIncludes(payload.o["error"].s, "Too many requests")

\* The rate-limit message was returned for an `error` string that is itself
\* JSON holding a graphql error list.
C8_Witness ==
  /\ classified = Return(RateLimitMessage)
  /\ HasErrorString(payload)
  /\ JSONParse(payload.o["error"].s).kind = "return"
  /\ HasGraphqlErrorList(JSONParse(payload.o["error"].s).value)

(***************************************************************************)
(* Claims about the decoder and the executor, checked under SpecExec       *)
(***************************************************************************)
NoResponse == Str("No response from the server")

\* C1: when the transport call completed successfully, buildQuery returns
\* the decoder's payload if the decoder's outcome is success, and raises an
\* error carrying the failure payload if the decoder's outcome is failure.
C1_ExecutorRaisesOnFailure ==
  (outcome # NotRun /\ settled.ok) =>
    LET d == handleResponse(settled.data) IN
      IF d.error = Undef
      THEN outcome = Return(d.data)
      ELSE outcome = Throw(d.error)

\* C2: handleResponse yields, first match wins: failure with the string of a
\* string-valued `error` field (also when a `data` field is present); else
\* success with the value of the `data` field, whatever it is; else failure
\* with "No response from the server".  Exactly one of the result's data and
\* error slots is set.
C2_DecoderRules ==
  decoded # NotRun =>
    LET b == settled.data IN
      /\ IF b.t = "object" /\ "error" \in DOMAIN b.o /\ b.o["error"].t = "string"
         THEN decoded = [data |-> Undef, error |-> b.o["error"]]
         ELSE IF b.t = "object" /\ "data" \in DOMAIN b.o
         THEN decoded = [data |-> b.o["data"], error |-> Undef]
         ELSE decoded = [data |-> Undef, error |-> NoResponse]
      /\ (decoded.data = Undef) # (decoded.error = Undef)

\* A body with both a string `error` and a `data` field was decoded.
C2_Witness ==
  /\ decoded # NotRun
  /\ settled.data.t = "object"
  /\ DOMAIN settled.data.o = {"error", "data"}
  /\ settled.data.o["error"].t = "string"
  /\ decoded.error = settled.data.o["error"]

(***************************************************************************)
(* useServerMutation (the Mutation Wrapper)                                *)
(***************************************************************************)
\* Triggers per mounted mutation hook, and the largest retry option.
MaxTriggers == 2
MaxRetry == 1

Fn(name) == [t |-> "function", f |-> name]

\* getServerBaseUrl() and the endpoint the caller names.
BaseUrl == "http://server"
Endpoint == "/api/entry"

\* The object a caller passes: endpoint and method, and any of the
\* useMutation options onError (a function, or an explicit undefined), retry
\* and mutationFn.
CallerConfig(onErr, retry, fn) ==
  ("endpoint" :> Str(Endpoint)) @@ ("method" :> Str("POST"))
    @@ (IF onErr = Absent THEN <<>> ELSE "onError" :> onErr)
    @@ (IF retry = Absent THEN <<>> ELSE "retry" :> retry)
    @@ (IF fn = Absent THEN <<>> ELSE "mutationFn" :> fn)

Configs ==
  { CallerConfig(e, r, f) :
      e \in {Absent, Fn("callerOnError"), Undef},
      r \in {Absent} \cup {Num(n) : n \in 0..MaxRetry},
      f \in {Absent, Fn("callerMutationFn")} }

\* defaultOptions.mutations of the QueryClient: nothing, or one retry.
ClientDefaults == {<<>>, "retry" :> Num(1)}

\* The variables a trigger passes.
MutationVariables == {Undef, Obj("id" :> Num(1))}

\* { endpoint, method, ...options }: the rest of the caller's object.
RestOptions(cfg) == [k \in DOMAIN cfg \ {"endpoint", "method"} |-> cfg[k]]

\* The wrapper's own onError and mutationFn.
WrapperDefaults ==
  ("onError" :> Fn("defaultOnError")) @@ ("mutationFn" :> Fn("wrapperMutationFn"))

\* A faulty merge: the caller's options spread first, the defaults after.
MergeDefaultsLast(defaults, options) == defaults @@ options

\* The object literal { onError, mutationFn, ...options }: the defaults
\* first and the caller's options spread after them, so a caller's key wins.
MergeOptions(defaults, options) == options @@ defaults

\* The options object useServerMutation builds for useMutation.
useServerMutationOptions(cfg) == MergeOptions(WrapperDefaults, RestOptions(cfg))

\* The options useMutation runs with: the given ones over the client's.
Effective == merged @@ clientDefaults

\* useMutation's retry count: the retry option when it is a number, else 0.
RetryLimit(opts) ==
  IF "retry" \in DOMAIN opts /\ opts["retry"].t = "number" THEN opts["retry"].n ELSE 0

\* A faulty request: the variables sent as query parameters instead of as
\* the body.
WrapperRequestAsParams(cfg, variables) ==
  [ url |-> BaseUrl \o cfg["endpoint"].s,
    method |-> cfg["method"].s,
    data |-> Undef,
    params |-> variables ]

\* The axios request the wrapper's mutationFn makes through buildQuery.
WrapperRequest(cfg, variables) ==
  [ url |-> BaseUrl \o cfg["endpoint"].s,
    method |-> cfg["method"].s,
    data |-> variables,
    params |-> Undef ]

\* The default onError: toast.error(handleError(error.request?.data)).  The
\* completion of the handleError call, whose value is the toast's message.
DefaultOnError(error) == handleError(OptGet(Get(error, "request"), "data"))

UsesWrapperFn == Effective["mutationFn"] = Fn("wrapperMutationFn")

\* How the transport settles for the wrapper's mutationFn: a success
\* envelope, a declared failure and a malformed envelope with a 2xx status;
\* a network error and two responses with a status outside 2xx.
MutationSettlements ==
  { Fulfilled(Obj("data" :> Num(1))),
    Fulfilled(Obj("error" :> Str("Too many requests"))),
    Fulfilled(EmptyObj),
    Rejected(AxiosError(XhrRequest(0), Undef)),
    Rejected(AxiosError(XhrRequest(429),
                        HttpResponse(429, Obj("error" :> Str("Too many requests"))))),
    Rejected(AxiosError(XhrRequest(500), HttpResponse(500, Str("raw string")))) }

PlainError == Obj("name" :> Str("Error"))

\* How the promise of a caller's own mutationFn settles.
CallerSettlements == {Fulfilled(Num(1)), Rejected(PlainError)}

SettlementsOfFn == IF UsesWrapperFn THEN MutationSettlements ELSE CallerSettlements

\* The completion of the mutationFn given how what it awaits settled.
FnCompletion(s) ==
  IF UsesWrapperFn THEN buildQuery(s)
  ELSE IF s.ok THEN Return(s.data) ELSE Throw(s.error)

\* One call of the mutationFn for mutation m.
CallFn(m) ==
  IF UsesWrapperFn
  THEN [m EXCEPT !.requests = Append(@, WrapperRequest(config, m.variables))]
  ELSE [m EXCEPT !.callerFnCalls = @ + 1]

NewMutation(v) ==
  [ variables |-> v,
    status |-> "pending",
    failureCount |-> 0,
    requests |-> <<>>,
    callerFnCalls |-> 0,
    notified |-> <<>>,
    callerOnError |-> 0,
    last |-> NotRun ]

InitMutation ==
  /\ config \in Configs
  /\ clientDefaults \in ClientDefaults
  /\ merged = NotRun
  /\ muts = <<>>
  /\ PureIdle
  /\ QueryIdle

\* The component renders and calls the hook with the caller's object.
UseServerMutation ==
  /\ merged = NotRun
  /\ merged' = useServerMutationOptions(config)
  /\ UNCHANGED <<config, clientDefaults, muts, pureVars, queryVars>>

\* mutate(v): a new mutation, whose mutationFn is called at once.
Mutate(v) ==
  /\ merged # NotRun
  /\ Len(muts) < MaxTriggers
  /\ muts' = Append(muts, CallFn(NewMutation(v)))
  /\ UNCHANGED <<config, clientDefaults, merged, pureVars, queryVars>>

\* The mutationFn of mutation i returns: the mutation succeeds.
Succeed(i, s) ==
  /\ muts[i].status = "pending"
  /\ FnCompletion(s).kind = "return"
  /\ muts' = [muts EXCEPT ![i] = [@ EXCEPT !.status = "success", !.last = s]]
  /\ UNCHANGED <<config, clientDefaults, merged, pureVars, queryVars>>

\* The mutationFn of mutation i throws with retries left: it is called again.
Retry(i, s) ==
  /\ muts[i].status = "pending"
  /\ FnCompletion(s).kind = "throw"
  /\ muts[i].failureCount < RetryLimit(Effective)
  /\ muts' = [muts EXCEPT ![i] = CallFn([@ EXCEPT !.failureCount = @ + 1])]
  /\ UNCHANGED <<config, clientDefaults, merged, pureVars, queryVars>>

\* The mutationFn of mutation i throws with no retry left: the mutation
\* fails and the onError option, when it is a function, is called.
Fail(i, s) ==
  /\ muts[i].status = "pending"
  /\ FnCompletion(s).kind = "throw"
  /\ muts[i].failureCount >= RetryLimit(Effective)
  /\ LET onError == Effective["onError"]
         toast == DefaultOnError(FnCompletion(s).error)
         failed == [muts[i] EXCEPT !.status = "error", !.last = s]
     IN  muts' = [muts EXCEPT ![i] =
           IF onError = Fn("defaultOnError")
           THEN IF toast.kind = "return"
                THEN [failed EXCEPT !.notified = Append(@, toast.value)]
                ELSE failed
           ELSE IF onError = Fn("callerOnError")
           THEN [failed EXCEPT !.callerOnError = @ + 1]
           ELSE failed]
  /\ UNCHANGED <<config, clientDefaults, merged, pureVars, queryVars>>

NextMutation ==
  \/ UseServerMutation
  \/ \E v \in MutationVariables : Mutate(v)
  \/ \E i \in DOMAIN muts : \E s \in SettlementsOfFn : Succeed(i, s)
  \/ \E i \in DOMAIN muts : \E s \in SettlementsOfFn : Retry(i, s)
  \/ \E i \in DOMAIN muts : \E s \in SettlementsOfFn : Fail(i, s)

SpecMutation == InitMutation /\ [][NextMutation]_vars

(***************************************************************************)
(* Claims about the Mutation Wrapper, checked under SpecMutation           *)
(***************************************************************************)
CallerSuppliesOnError == "onError" \in DOMAIN config /\ config["onError"].t = "function"
CallerSuppliesNoOnError == "onError" \notin DOMAIN config
CallerSuppliesFn == "mutationFn" \in DOMAIN config

\* Whether settlement s is an axios rejection whose response body is b.
RejectedWithBody(s, b) ==
  /\ s # NotRun
  /\ ~s.ok
  /\ OptGet(Get(s.error, "response"), "data") = b

\* C3: a mutation of a wrapper without caller onError whose executor raises
\* a transport error with response body { error: "Too many requests" } makes
\* exactly one Notifier call, with the rate-limit message.
C3_RateLimitNotified ==
  \A i \in DOMAIN muts :
    (/\ muts[i].status = "error"
     /\ CallerSuppliesNoOnError
     /\ ~CallerSuppliesFn
     /\ RejectedWithBody(muts[i].last, Obj("error" :> Str("Too many requests"))))
    => muts[i].notified = <<RateLimitMessage>>

\* Whether the request whose last settlement is s failed, in any class of
\* the taxonomy: a transport failure, a declared server failure or a
\* malformed envelope returned with a successful transport status.
RequestFailed(s) == ~s.ok \/ handleResponse(s.data).error # Undef

\* C5: every request issued through the Mutation Wrapper with its default
\* onError results in exactly one Notifier call if it fails in any class of
\* the taxonomy, and in none if it succeeds.
C5_OneNotificationPerFailure ==
  \A i \in DOMAIN muts :
    (/\ muts[i].status # "pending"
     /\ CallerSuppliesNoOnError
     /\ ~CallerSuppliesFn)
    => IF RequestFailed(muts[i].last)
       THEN Len(muts[i].notified) = 1
       ELSE Len(muts[i].notified) = 0

C10_OneCallForEveryConfig ==
  \A i \in DOMAIN muts :
    /\ Len(muts[i].requests) = 1
    /\ muts[i].requests[1].data = muts[i].variables

\* C10 amended: for every configuration whose options, and whose client
\* defaults, carry no mutationFn and no retry count above zero, every trigger
\* results in exactly one executor invocation, hence one network call, whose
\* body is the trigger's variables and which has no query parameters.
C10_OneCallWithoutOverrides ==
  \A i \in DOMAIN muts :
    (~CallerSuppliesFn /\ RetryLimit(RestOptions(config) @@ clientDefaults) = 0)
    => /\ Len(muts[i].requests) = 1
       /\ muts[i].requests[1].url = BaseUrl \o Endpoint
       /\ muts[i].requests[1].data = muts[i].variables
       /\ muts[i].requests[1].params = Undef
       /\ muts[i].callerFnCalls = 0

\* A trigger with variables failed after its single network call.
C10_Witness ==
  \E i \in DOMAIN muts :
    /\ muts[i].status = "error"
    /\ ~CallerSuppliesFn
    /\ RetryLimit(RestOptions(config) @@ clientDefaults) = 0
    /\ muts[i].variables # Undef
    /\ Len(muts[i].requests) = 1

(***************************************************************************)
(* useServerQuery (the Query Wrapper)                                      *)
(***************************************************************************)
\* Failed fetches per mounted query hook, and toasts recorded.
MaxErrors == 2
MaxToasts == 3

\* Each rejection is a new error object: the identity is kept in the object.
WithId(e, id) == Obj(("id" :> Num(id)) @@ e.o)

\* The values the optional boolean prop muteError takes.
MuteValues == {Undef, Bool(FALSE), Bool(TRUE)}

\* The dependency array [props.error, props.isError, muteError].
Deps(c, m) == [ran |-> TRUE, error |-> c.error, isError |-> c.isError, mute |-> m]

\* Whether React runs the effect after a commit: on mount, and whenever a
\* dependency is not the one of the previous commit.
EffectRuns(deps) == lastDeps = NoDeps \/ deps # lastDeps

\* handleError(props.error?.response?.data), the message of the toast.
QueryToast(c) == handleError(OptGet(OptGet(c.error, "response"), "data"))

InitQuery ==
  /\ muteError \in MuteValues
  /\ cache = NoError
  /\ lastDeps = NoDeps
  /\ toasts = <<>>
  /\ nextId = 1
  /\ PureIdle
  /\ MutIdle

\* The query cache ends a fetch (with the retries it makes) in failure.
QueryFails(e) ==
  /\ nextId <= MaxErrors
  /\ cache' = [error |-> WithId(e, nextId), isError |-> TRUE]
  /\ nextId' = nextId + 1
  /\ UNCHANGED <<muteError, lastDeps, toasts, pureVars, mutVars>>

\* The query cache ends a fetch in success: the error is cleared.
QuerySucceeds ==
  /\ cache' = NoError
  /\ UNCHANGED <<muteError, lastDeps, toasts, nextId, pureVars, mutVars>>

\* The component renders useServerQuery with muteError = m, reading the
\* query's current state, and React commits: the effect runs when one of its
\* dependencies changed.
Render(m) ==
  LET deps == Deps(cache, m)
      notify == EffectRuns(deps) /\ ~Truthy(m) /\ cache.isError
      toast == QueryToast(cache)
  IN  /\ notify => Len(toasts) < MaxToasts
      /\ muteError' = m
      /\ lastDeps' = deps
      /\ toasts' =
           IF notify /\ toast.kind = "return"
           THEN Append(toasts, [ err |-> Get(cache.error, "id").n,
                                 message |-> toast.value,
                                 mute |-> m ])
           ELSE toasts
      /\ UNCHANGED <<cache, nextId, pureVars, mutVars>>

NextQuery ==
  \/ \E e \in AxiosErrors : QueryFails(e)
  \/ QuerySucceeds
  \/ \E m \in MuteValues : Render(m)

SpecQuery == InitQuery /\ [][NextQuery]_vars

(***************************************************************************)
(* Claims about the Query Wrapper, checked under SpecQuery                 *)
(***************************************************************************)
\* C4: over any sequence of renders and cache changes, the Notifier is never
\* invoked while the mute flag is set, and it is invoked at most once for
\* one error object, also across re-renders and changes of the mute flag.
C4_OncePerErrorOccurrence ==
  /\ \A i \in DOMAIN toasts : ~Truthy(toasts[i].mute)
  /\ \A i, j \in DOMAIN toasts : i # j => toasts[i].err # toasts[j].err

====
